---- MODULE Spec2Model ----
(***************************************************************************)
(* Model of serenity's channel model: src/model/channel/mod.rs (the        *)
(* Channel tagged union, its decoder and its forwarding methods) and       *)
(* src/model/channel/group.rs (the Group record's methods).                *)
(*                                                                         *)
(* The state is one Channel value (chan), the compile-time cache feature   *)
(* with the current account's type (cache), and the record of the last     *)
(* invocation (last): the operation, its arguments, the decoder's input,   *)
(* the remote calls it issued together with the remote service's replies,  *)
(* the variant decoders it attempted and the value it returned.  Every     *)
(* method is an operator yielding [calls, result]; every action is one     *)
(* whole invocation.  Strings that are computed on are sequences of        *)
(* characters.  Every field of last keeps one shape in every state, so     *)
(* that two states can always be compared.                                 *)
(*                                                                         *)
(* SpecGroup explores impl Group, SpecChannel impl Channel, SpecDecode and *)
(* SpecOverwrite the decoders, SpecCalls every method of both impls; Spec  *)
(* is their union.                                                         *)
(*                                                                         *)
(* The Channel value is shared: lock is the state of the RwLock around the *)
(* wrapped record, procs the caller threads (the method each runs, its     *)
(* position in it and its locals), writer the thread that updates the      *)
(* record under the write lock, and pre the record before that update.     *)
(* SpecReaders and SpecLock explore the methods step by step, a lock       *)
(* acquisition, a read of the record and a remote call being one step      *)
(* each; in the other specifications the threads stay idle.                *)
(***************************************************************************)
EXTENDS Integers, Sequences, FiniteSets, TLC

VARIABLES chan, cache, last, lock, procs, writer, pre

vars == <<chan, cache, last, lock, procs, writer, pre>>

----------------------------------------------------------------------------
\* Bounds

MaxUserId == 3
MaxRecipients == 3
MaxChannelId == 2
MaxArg == 2
MaxNegCode == 2
MaxTypeCode == 6
MaxPerm == 2
MaxThreads == 2

----------------------------------------------------------------------------
\* Values

None == <<>>
Some(x) == <<x>>

Ok(v) == [st |-> "Ok", val |-> v]
Err(e) == [st |-> "Err", val |-> e]
\* Option::unwrap on None: the thread panics, nothing is returned.
Panic == [st |-> "Panic", val |-> [kind |-> "panic", msg |-> "unwrap on None"]]

Unit == [kind |-> "unit", msg |-> ""]

missing_field(f) == [kind |-> "missing_field", msg |-> f]
custom(m) == [kind |-> "custom", msg |-> m]
InvalidOperationAsBot == [kind |-> "client", msg |-> "InvalidOperationAsBot"]

\* The argument list of an operation that takes no argument.
NoArg == <<>>

Tags == {"Group", "Guild", "Private", "Category"}
UserIds == 1..MaxUserId
ChannelIds == 1..MaxChannelId
Args == 1..MaxArg
\* A user's display name; two users may carry the same name and a name may be
\* empty.
UserName(u) ==
    CASE u % 3 = 1 -> <<"A", "l">>
      [] u % 3 = 2 -> <<>>
      [] OTHER -> <<"B">>
User(u) == [id |-> u, name |-> UserName(u)]
GroupNames == {None, Some(<<"G">>)}
IconVals == {None}
OwnerIds == {MaxUserId}

\* What the remote service may answer to a request.
RemoteErrors == {[kind |-> "remote", msg |-> "NotFound"], [kind |-> "remote", msg |-> "Forbidden"]}
Payloads == {[kind |-> "payload", msg |-> "snapshot"]}
UnitReplies == {Ok(Unit)} \cup {Err(e) : e \in RemoteErrors}
PayloadReplies == {Ok(p) : p \in Payloads} \cup {Err(e) : e \in RemoteErrors}

----------------------------------------------------------------------------
\* Records

\* Group.recipients is a map keyed by UserId; the sequence is its iteration
\* order, which the map fixes between two modifications.
DistinctIds(rs) == \A i, j \in 1..Len(rs) : i # j => rs[i].id # rs[j].id

RecipientMaps ==
    {rs \in UNION {[1..n -> {User(u) : u \in UserIds}] : n \in 0..MaxRecipients} :
        DistinctIds(rs)}

Groups ==
    [channel_id : ChannelIds, icon : IconVals, name : GroupNames,
     owner_id : OwnerIds, recipients : RecipientMaps]

\* GuildChannel, PrivateChannel and ChannelCategory: only the identifier is
\* read by the code modelled here.
IdRecords == [id : ChannelIds]

Channels ==
    [tag : {"Group"}, rec : Groups] \cup [tag : Tags \ {"Group"}, rec : IdRecords]

contains_key(recipients, user) == \E i \in 1..Len(recipients) : recipients[i].id = user

\* One exchange with the remote service: the request and the reply it got.
Call(name, channel_id, args, reply) ==
    [name |-> name, channel_id |-> channel_id, args |-> args, reply |-> reply]

Returned(calls, result) == [calls |-> calls, result |-> result]

----------------------------------------------------------------------------
\* ChannelId and the remote service

\* Every operation of ChannelId is implemented once against the identifier
\* and issues one request to the remote service, whose reply it returns.
ChannelId_op(id, op, args, reply) == Returned(<<Call(op, id, args, reply)>>, reply)

\* rest::add_group_recipient, rest::remove_group_recipient, rest::leave_group
rest(name, channel_id, args, reply) == Returned(<<Call(name, channel_id, args, reply)>>, reply)

----------------------------------------------------------------------------
\* impl Group

\* Variant of ack that skips the bot check.
Group_ack_unchecked(g, c, message_id, reply) ==
    ChannelId_op(g.channel_id, "ack", <<message_id>>, reply)

Group_ack(g, c, message_id, reply) ==
    IF c.enabled /\ c.bot
    THEN Returned(<<>>, Err(InvalidOperationAsBot))
    ELSE ChannelId_op(g.channel_id, "ack", <<message_id>>, reply)

\* Variant of add_recipient that skips the membership lookup.
Group_add_recipient_always(g, user, reply) ==
    rest("add_group_recipient", g.channel_id, <<user>>, reply)

Group_add_recipient(g, user, reply) ==
    IF contains_key(g.recipients, user)
    THEN Returned(<<>>, Ok(Unit))
    ELSE rest("add_group_recipient", g.channel_id, <<user>>, reply)

Group_remove_recipient(g, user, reply) ==
    IF ~contains_key(g.recipients, user)
    THEN Returned(<<>>, Ok(Unit))
    ELSE rest("remove_group_recipient", g.channel_id, <<user>>, reply)

\* Variant of leave that repeats a failed request once.
Group_leave_retry(g, reply) ==
    LET r == rest("leave_group", g.channel_id, NoArg, reply)
    IN  IF r.result.st = "Err" THEN Returned(r.calls \o r.calls, r.result) ELSE r

Group_leave(g, reply) == rest("leave_group", g.channel_id, NoArg, reply)

\* The methods of Group whose body is self.channel_id.<method>(arguments).
GroupOps ==
    {"broadcast_typing", "create_reaction", "delete_messages", "delete_permission",
     "delete_reaction", "edit_message", "get_message", "get_messages",
     "get_reaction_users", "pins", "say", "search", "send_file", "send_message",
     "unpin"}

\* Those answering Result<()>; the others answer a payload.
GroupUnitOps ==
    {"broadcast_typing", "create_reaction", "delete_messages", "delete_permission",
     "delete_reaction", "unpin"}

Group_forward(g, op, arg, reply) == ChannelId_op(g.channel_id, op, <<arg>>, reply)

\* Variant in which a successful add_recipient request also records the user
\* among the local recipients.
Group_after_insert(g, op, args, r) ==
    IF op = "add_recipient" /\ r.calls # <<>> /\ r.result.st = "Ok"
    THEN [g EXCEPT !.recipients = Append(@, User(args[1]))]
    ELSE g

\* The Group behind `&self` when ack, add_recipient, remove_recipient or
\* leave returns r: the methods borrow the Group immutably and assign to none
\* of its fields.
Group_after(g, op, args, r) == g

EmptyGroup == <<"E", "m", "p", "t", "y", " ", "G", "r", "o", "u", "p">>
Separator == <<",", " ">>

\* for recipient in self.recipients.values().skip(1) { write!(name, ", {}", ..) }
RECURSIVE WriteRest(_, _, _)
WriteRest(name, recipients, i) ==
    IF i > Len(recipients)
    THEN name
    ELSE WriteRest(name \o Separator \o recipients[i].name, recipients, i + 1)

\* Variant of name() whose loop does not skip the first recipient.
Group_name_no_skip(g) ==
    IF g.name # None
    THEN g.name[1]
    ELSE IF Len(g.recipients) = 0
         THEN EmptyGroup
         ELSE WriteRest(g.recipients[1].name, g.recipients, 1)

Group_name(g) ==
    IF g.name # None
    THEN g.name[1]
    ELSE IF Len(g.recipients) = 0
         THEN EmptyGroup
         ELSE WriteRest(g.recipients[1].name, g.recipients, 2)

----------------------------------------------------------------------------
\* impl Channel

\* Variant of id() that projects the wrong field of a Group.
Channel_id_owner(c) ==
    CASE c.tag = "Group" -> c.rec.owner_id
      [] c.tag = "Guild" -> c.rec.id
      [] c.tag = "Private" -> c.rec.id
      [] c.tag = "Category" -> c.rec.id

Channel_id(c) ==
    CASE c.tag = "Group" -> c.rec.channel_id
      [] c.tag = "Guild" -> c.rec.id
      [] c.tag = "Private" -> c.rec.id
      [] c.tag = "Category" -> c.rec.id

\* GuildChannel::delete, PrivateChannel::delete, ChannelCategory::delete:
\* the variant's own removal request for its identifier.
Variant_delete(tag, rec, reply) ==
    Returned(<<Call(tag \o "::delete", rec.id, NoArg, reply)>>, reply)

\* `let _ = x?;` returns x's failure and discards x's payload.
Try(r) == Returned(r.calls, IF r.result.st = "Ok" THEN Ok(Unit) ELSE r.result)

\* Variant of delete() that drops the `?` after leave().
Channel_delete_swallow(c, reply) ==
    CASE c.tag = "Group" -> Returned(Group_leave(c.rec, reply).calls, Ok(Unit))
      [] c.tag = "Guild" -> Try(Variant_delete("GuildChannel", c.rec, reply))
      [] c.tag = "Private" -> Try(Variant_delete("PrivateChannel", c.rec, reply))
      [] c.tag = "Category" -> Try(Variant_delete("ChannelCategory", c.rec, reply))

Channel_delete(c, reply) ==
    CASE c.tag = "Group" -> Try(Group_leave(c.rec, reply))
      [] c.tag = "Guild" -> Try(Variant_delete("GuildChannel", c.rec, reply))
      [] c.tag = "Private" -> Try(Variant_delete("PrivateChannel", c.rec, reply))
      [] c.tag = "Category" -> Try(Variant_delete("ChannelCategory", c.rec, reply))

\* The methods of Channel whose body is self.id().<method>(arguments).
ChannelOps ==
    {"create_reaction", "delete_message", "delete_reaction", "edit_message",
     "message", "messages", "reaction_users", "say", "send_files",
     "send_message", "unpin"}

\* Methods answering Result<()>; the others answer a payload.
UnitOps == {"create_reaction", "delete_message", "delete_reaction", "unpin"}

\* Every method of impl Channel.
ChannelMethods == ChannelOps \cup {"delete", "id", "is_nsfw"}

\* Variant of the forwarding methods in which unpin calls pin.
Channel_forward_pin(c, op, arg, reply) ==
    ChannelId_op(Channel_id(c), IF op = "unpin" THEN "pin" ELSE op, <<arg>>, reply)

Channel_forward(c, op, arg, reply) == ChannelId_op(Channel_id(c), op, <<arg>>, reply)

----------------------------------------------------------------------------
\* impl Deserialize for Channel

\* The JSON value under "type": absent, null, a string, a fractional number
\* or an integer n.
TypeVals ==
    {[k |-> x, n |-> 0] : x \in {"absent", "null", "string", "fraction"}}
        \cup {[k |-> "int", n |-> i] : i \in -MaxNegCode..MaxTypeCode}

\* A record: its "type" value and, for the rest of its fields, the variants
\* whose decoder accepts them.
JsonMaps == [type : TypeVals, fits : SUBSET Tags]

\* Value::as_u64: Some(n) for a non-negative integer, None for anything else.
as_u64(v) == IF v.k = "int" /\ v.n >= 0 THEN Some(v.n) ELSE None

\* serde_json::from_value::<T>(Value::Object(v)) followed by the wrapping in
\* the Channel tag and map_err(DeError::custom).
from_value(tag, v) ==
    [decoders |-> <<tag>>,
     result |-> IF tag \in v.fits
                THEN Ok([kind |-> "Channel", msg |-> tag])
                ELSE Err(custom("invalid " \o tag))]

\* Variant of the decoder that unwraps the "type" lookup instead of turning
\* its absence into a failure.
Channel_deserialize_unwrap_get(v) ==
    IF v.type.k = "absent" \/ as_u64(v.type) = None
    THEN [decoders |-> <<>>, result |-> Panic]
    ELSE LET kind == as_u64(v.type)[1]
         IN  CASE kind \in {0, 2} -> from_value("Guild", v)
               [] kind = 1 -> from_value("Private", v)
               [] kind = 3 -> from_value("Group", v)
               [] kind = 4 -> from_value("Category", v)
               [] OTHER -> [decoders |-> <<>>,
                            result |-> Err(custom("Unknown channel type"))]

\* Variant of the decoder whose fallback arm reports the offending code.
Channel_deserialize_reporting(v) ==
    IF v.type.k = "absent"
    THEN [decoders |-> <<>>, result |-> Err(missing_field("type"))]
    ELSE IF as_u64(v.type) = None
         THEN [decoders |-> <<>>, result |-> Panic]
         ELSE LET kind == as_u64(v.type)[1]
              IN  CASE kind \in {0, 2} -> from_value("Guild", v)
                    [] kind = 1 -> from_value("Private", v)
                    [] kind = 3 -> from_value("Group", v)
                    [] kind = 4 -> from_value("Category", v)
                    [] OTHER -> [decoders |-> <<>>,
                                 result |-> Err(custom("Unknown channel type " \o ToString(kind)))]

Channel_deserialize(v) ==
    IF v.type.k = "absent"
    THEN [decoders |-> <<>>, result |-> Err(missing_field("type"))]
    ELSE IF as_u64(v.type) = None
         THEN [decoders |-> <<>>, result |-> Panic]
         ELSE LET kind == as_u64(v.type)[1]
              IN  CASE kind \in {0, 2} -> from_value("Guild", v)
                    [] kind = 1 -> from_value("Private", v)
                    [] kind = 3 -> from_value("Group", v)
                    [] kind = 4 -> from_value("Category", v)
                    [] OTHER -> [decoders |-> <<>>,
                                 result |-> Err(custom("Unknown channel type"))]

----------------------------------------------------------------------------
\* impl Deserialize for PermissionOverwrite

Permissions == 0..MaxPerm

\* The JSON value under "type" of an overwrite: absent, an integer, or a
\* string s.
KindStrings == {"member", "role", "Member", "ROLE", "", "user"}
KindVals ==
    {[k |-> "string", s |-> x] : x \in KindStrings}
        \cup {[k |-> "absent", s |-> ""], [k |-> "int", s |-> ""]}

OverwriteMaps == [allow : Permissions, deny : Permissions, id : UserIds, type : KindVals]

\* #[derive(Deserialize)] struct PermissionOverwriteData: kind is a String
\* read from the field "type".
PermissionOverwriteData_deserialize(v) ==
    CASE v.type.k = "absent" -> Err(missing_field("type"))
      [] v.type.k = "int" -> Err(custom("invalid type: integer, expected a string"))
      [] OTHER -> Ok([allow |-> v.allow, deny |-> v.deny, id |-> v.id, kind |-> v.type.s])

\* ASCII lower case of the strings above.
Lower(x) ==
    CASE x = "Member" -> "member"
      [] x = "ROLE" -> "role"
      [] OTHER -> x

\* Variant of the overwrite decoder that compares the kind without regard to
\* case.
PermissionOverwrite_deserialize_nocase(v) ==
    LET data == PermissionOverwriteData_deserialize(v)
    IN  IF data.st # "Ok" THEN data
        ELSE CASE Lower(data.val.kind) = "member" ->
                    Ok([kind |-> "PermissionOverwrite", allow |-> data.val.allow,
                        deny |-> data.val.deny,
                        target |-> [kind |-> "Member", id |-> data.val.id]])
               [] Lower(data.val.kind) = "role" ->
                    Ok([kind |-> "PermissionOverwrite", allow |-> data.val.allow,
                        deny |-> data.val.deny,
                        target |-> [kind |-> "Role", id |-> data.val.id]])
               [] OTHER -> Err(custom("Unknown PermissionOverwriteType"))

PermissionOverwrite_deserialize(v) ==
    LET data == PermissionOverwriteData_deserialize(v)
    IN  IF data.st # "Ok" THEN data
        ELSE CASE data.val.kind = "member" ->
                    Ok([kind |-> "PermissionOverwrite", allow |-> data.val.allow,
                        deny |-> data.val.deny,
                        target |-> [kind |-> "Member", id |-> data.val.id]])
               [] data.val.kind = "role" ->
                    Ok([kind |-> "PermissionOverwrite", allow |-> data.val.allow,
                        deny |-> data.val.deny,
                        target |-> [kind |-> "Role", id |-> data.val.id]])
               [] OTHER -> Err(custom("Unknown PermissionOverwriteType"))

----------------------------------------------------------------------------
\* The shared-state wrapper: Arc<RwLock<T>> around the wrapped record

Clients == 1..MaxThreads

\* The lock is held by any number of readers or by one writer.
Unlocked == [readers |-> {}, writer |-> FALSE]

\* RwLock::read blocks only while the write lock is held.
ReadAcquirable(l) == ~l.writer
AcquireRead(l, t) == [l EXCEPT !.readers = @ \cup {t}]
\* Dropping the read guard.
ReleaseRead(l, t) == [l EXCEPT !.readers = @ \ {t}]

\* RwLock::write blocks while any guard is held.
WriteAcquirable(l) == ~l.writer /\ l.readers = {}
AcquireWrite(l) == [l EXCEPT !.writer = TRUE]
ReleaseWrite(l) == [l EXCEPT !.writer = FALSE]

\* RwLockExt::with(f): the lock once f's value has been computed.  The guard
\* is local to with and is dropped before with returns.
with(l, t) == ReleaseRead(l, t)

\* A caller thread: the method it runs, its position in it, and its locals
\* (the identifier read, the text written so far, the value of is_nsfw, the
\* Result returned).
Idle == [op |-> "none", pc |-> "start", id |-> 0, text |-> <<>>, nsfw |-> FALSE,
         res |-> Ok(Unit)]

\* No thread has begun.
Quiescent ==
    /\ lock = Unlocked
    /\ procs = [t \in Clients |-> Idle]
    /\ writer = "idle"
    /\ pre = chan

conc == <<lock, procs, writer, pre>>

\* Variant of the forwarding methods that keeps the record's read guard while
\* the remote call is made.
Channel_forward_guard_held(l, t) == l

\* The lock when a forwarding method issues its remote call: self.id() has
\* returned, and with it the guard taken inside id().
Channel_forward_guard(l, t) == with(l, t)

\* Variant of delete() that copies the identifier out and drops the guard
\* before the request.
Channel_delete_guard_dropped(l, t) == ReleaseRead(l, t)

\* The lock when delete() issues its request: the guard returned by
\* read().unwrap() is a temporary of the statement that makes the call and
\* lives to the end of that statement.
Channel_delete_guard(l, t) == l

\* Variant of Display::fmt that takes the guard anew for each read of the
\* group.
Display_fmt_guard_per_read(l, t) == ReleaseRead(l, t)

\* The lock while Group::name() runs inside Display::fmt: the guard returned
\* by group.read().unwrap() is a temporary of the argument expression and is
\* held until fmt returns.
Display_fmt_guard(l, t) == l

\* Channel::is_nsfw for the variants it answers without reading the record.
Channel_is_nsfw(c) == CASE c.tag \in {"Group", "Private"} -> FALSE

\* A thread's step: its new locals and the lock after it.
Step(t, p, l) ==
    /\ procs' = [procs EXCEPT ![t] = p]
    /\ lock' = l
    /\ UNCHANGED <<chan, cache, last, writer, pre>>

Starting(t) == procs[t].pc = "start"
At(t, op, pc) == procs[t].op = op /\ procs[t].pc = pc

\* Channel::id() = group.with(|g| g.channel_id): read() ...
IdAcquire(t) ==
    /\ Starting(t)
    /\ ReadAcquirable(lock)
    /\ Step(t, [procs[t] EXCEPT !.op = "id", !.pc = "with"], AcquireRead(lock, t))

\* ... the projection, and the drop of the guard.
IdProject(t) ==
    /\ At(t, "id", "with")
    /\ Step(t, [procs[t] EXCEPT !.id = Channel_id(chan), !.pc = "done"], with(lock, t))

\* Channel::is_nsfw() on a Group or a PrivateChannel takes no lock.
IsNsfw(t) ==
    /\ Starting(t)
    /\ chan.tag \in {"Group", "Private"}
    /\ Step(t, [procs[t] EXCEPT !.op = "is_nsfw", !.nsfw = Channel_is_nsfw(chan),
                                !.pc = "done"], lock)

\* Display::fmt on a Group: group.read().unwrap() ...
FmtAcquire(t) ==
    /\ Starting(t)
    /\ chan.tag = "Group"
    /\ ReadAcquirable(lock)
    /\ Step(t, [procs[t] EXCEPT !.op = "fmt", !.pc = "name"], AcquireRead(lock, t))

\* ... name(): match self.name, self.recipients.values().nth(0) ...
FmtFirst(t) ==
    /\ At(t, "fmt", "name")
    /\ LET g == chan.rec
       IN  IF g.name # None
           THEN Step(t, [procs[t] EXCEPT !.text = g.name[1], !.pc = "done"],
                     ReleaseRead(lock, t))
           ELSE IF Len(g.recipients) = 0
                THEN Step(t, [procs[t] EXCEPT !.text = EmptyGroup, !.pc = "done"],
                          ReleaseRead(lock, t))
                ELSE Step(t, [procs[t] EXCEPT !.text = g.recipients[1].name,
                                              !.pc = "rest"],
                          Display_fmt_guard(lock, t))

\* ... for recipient in self.recipients.values().skip(1), and the drop of the
\* guard when fmt returns.
FmtRest(t) ==
    /\ At(t, "fmt", "rest")
    /\ Step(t, [procs[t] EXCEPT !.text = WriteRest(@, chan.rec.recipients, 2),
                                !.pc = "done"],
            ReleaseRead(lock, t))

\* A forwarding method, self.id().<op>(..): read() inside id() ...
ForwardAcquire(t) ==
    /\ Starting(t)
    /\ ReadAcquirable(lock)
    /\ \E op \in ChannelOps :
          Step(t, [procs[t] EXCEPT !.op = op, !.pc = "with"], AcquireRead(lock, t))

\* ... id() returns the identifier and the remote call is issued ...
ForwardCall(t) ==
    /\ procs[t].op \in ChannelOps
    /\ procs[t].pc = "with"
    /\ Step(t, [procs[t] EXCEPT !.id = Channel_id(chan), !.pc = "call"],
            Channel_forward_guard(lock, t))

\* ... and answered; the method returns, and no guard of its own outlives it.
ForwardReturn(t) ==
    /\ procs[t].op \in ChannelOps
    /\ procs[t].pc = "call"
    /\ \E reply \in (IF procs[t].op \in UnitOps THEN UnitReplies ELSE PayloadReplies) :
          Step(t, [procs[t] EXCEPT
                       !.res = ChannelId_op(procs[t].id, procs[t].op, NoArg, reply).result,
                       !.pc = "done"],
                  ReleaseRead(lock, t))

\* Channel::delete(): x.read().unwrap().delete()?  The guard is taken and the
\* request issued ...
DeleteCall(t) ==
    /\ Starting(t)
    /\ ReadAcquirable(lock)
    /\ Step(t, [procs[t] EXCEPT !.op = "delete", !.pc = "call"],
            Channel_delete_guard(AcquireRead(lock, t), t))

\* ... the request is answered, the statement ends (by `?` or normally) and
\* the guard is dropped.
DeleteReturn(t) ==
    /\ At(t, "delete", "call")
    /\ \E reply \in PayloadReplies :
          Step(t, [procs[t] EXCEPT !.res = Channel_delete(chan, reply).result,
                                   !.pc = "done"],
                  ReleaseRead(lock, t))

\* The writer: a thread that updates the record from an event of the remote
\* service.  It takes the write lock ...
WriteAcquire ==
    /\ writer = "idle"
    /\ WriteAcquirable(lock)
    /\ writer' = "name"
    /\ lock' = AcquireWrite(lock)
    /\ UNCHANGED <<chan, cache, last, procs, pre>>

\* ... assigns the name ...
WriteName ==
    /\ writer = "name"
    /\ writer' = "recipients"
    /\ \E n \in GroupNames :
          chan' = IF chan.tag = "Group" THEN [chan EXCEPT !.rec.name = n] ELSE chan
    /\ UNCHANGED <<cache, last, lock, procs, pre>>

\* The recipient maps one insertion or one removal away from rs; the new
\* entry may come first or last in the iteration order.
Updates(rs) ==
    {rs}
        \cup {<<User(u)>> \o rs : u \in {x \in UserIds : ~contains_key(rs, x)}}
        \cup {rs \o <<User(u)>> : u \in {x \in UserIds : ~contains_key(rs, x)}}
        \cup (IF rs = <<>> THEN {} ELSE {Tail(rs)})

\* ... updates the recipients and drops the write guard.
WriteRecipients ==
    /\ writer = "recipients"
    /\ writer' = "done"
    /\ IF chan.tag = "Group"
       THEN \E rs \in Updates(chan.rec.recipients) : chan' = [chan EXCEPT !.rec.recipients = rs]
       ELSE chan' = chan
    /\ lock' = ReleaseWrite(lock)
    /\ UNCHANGED <<cache, last, procs, pre>>

WriterStep == WriteAcquire \/ WriteName \/ WriteRecipients

\* The read-only projections.
ReaderStep(t) ==
    \/ IdAcquire(t)
    \/ IdProject(t)
    \/ IsNsfw(t)
    \/ FmtAcquire(t)
    \/ FmtFirst(t)
    \/ FmtRest(t)

\* The methods that make a remote call.
CallerStep(t) ==
    \/ ForwardAcquire(t)
    \/ ForwardCall(t)
    \/ ForwardReturn(t)
    \/ DeleteCall(t)
    \/ DeleteReturn(t)

----------------------------------------------------------------------------
\* The state machine

\* A returned value that is not a Result: the ChannelId of id(), the text of
\* name().
Value(type, v) == [st |-> type, val |-> v]

Invocation(op, args, input, calls, decoders, result) ==
    [op |-> op, args |-> args, input |-> input, calls |-> calls,
     decoders |-> decoders, result |-> result]

NoInvocation == Invocation("none", NoArg, None, <<>>, <<>>, Ok(Unit))

Init ==
    /\ chan \in Channels
    /\ cache \in [enabled : BOOLEAN, bot : BOOLEAN]
    /\ last = NoInvocation
    /\ Quiescent

Invoke(op, args, r) ==
    /\ last' = Invocation(op, args, None, r.calls, <<>>, r.result)
    /\ UNCHANGED <<chan, cache, conc>>

\* One invocation of a Group method on the Group held by chan.
InvokeOnGroup(op, args, r) ==
    /\ last' = Invocation(op, args, None, r.calls, <<>>, r.result)
    /\ chan' = [chan EXCEPT !.rec = Group_after(@, op, args, r)]
    /\ UNCHANGED <<cache, conc>>

Ack ==
    /\ chan.tag = "Group"
    /\ \E m \in Args, reply \in UnitReplies :
          InvokeOnGroup("ack", <<m>>, Group_ack(chan.rec, cache, m, reply))

AddRecipient ==
    /\ chan.tag = "Group"
    /\ \E u \in UserIds, reply \in UnitReplies :
          InvokeOnGroup("add_recipient", <<u>>, Group_add_recipient(chan.rec, u, reply))

RemoveRecipient ==
    /\ chan.tag = "Group"
    /\ \E u \in UserIds, reply \in UnitReplies :
          InvokeOnGroup("remove_recipient", <<u>>, Group_remove_recipient(chan.rec, u, reply))

Leave ==
    /\ chan.tag = "Group"
    /\ \E reply \in PayloadReplies :
          InvokeOnGroup("leave", NoArg, Group_leave(chan.rec, reply))

GroupForward ==
    /\ chan.tag = "Group"
    /\ \E op \in GroupOps, arg \in Args :
          \E reply \in (IF op \in GroupUnitOps THEN UnitReplies ELSE PayloadReplies) :
              Invoke(op, <<arg>>, Group_forward(chan.rec, op, arg, reply))

Name ==
    /\ chan.tag = "Group"
    /\ Invoke("name", NoArg, Returned(<<>>, Value("str", Group_name(chan.rec))))

Delete ==
    \E reply \in PayloadReplies :
        Invoke("delete", NoArg, Channel_delete(chan, reply))

Id == Invoke("id", NoArg, Returned(<<>>, Value("ChannelId", Channel_id(chan))))

Forward ==
    \E op \in ChannelOps, arg \in Args :
        \E reply \in (IF op \in UnitOps THEN UnitReplies ELSE PayloadReplies) :
            Invoke(op, <<arg>>, Channel_forward(chan, op, arg, reply))

Deserialize ==
    \E v \in JsonMaps :
        LET r == Channel_deserialize(v)
        IN  /\ last' = Invocation("deserialize", NoArg, Some(v), <<>>, r.decoders, r.result)
            /\ UNCHANGED <<chan, cache, conc>>

DeserializeOverwrite ==
    \E v \in OverwriteMaps :
        /\ last' = Invocation("deserialize_overwrite", NoArg, Some(v), <<>>, <<>>,
                              PermissionOverwrite_deserialize(v))
        /\ UNCHANGED <<chan, cache, conc>>

\* impl Group: the methods of group.rs on a Group, under every setting of
\* the cache.
InitGroup ==
    /\ chan \in [tag : {"Group"}, rec : Groups]
    /\ cache \in [enabled : BOOLEAN, bot : BOOLEAN]
    /\ last = NoInvocation
    /\ Quiescent

NextGroup ==
    \/ Ack
    \/ AddRecipient
    \/ RemoveRecipient
    \/ Leave
    \/ Name

SpecGroup == InitGroup /\ [][NextGroup]_vars

\* impl Channel: the methods of mod.rs on a Channel of any tag; none of them
\* reads the cache.
InitChannel ==
    /\ chan \in Channels
    /\ cache = [enabled |-> TRUE, bot |-> FALSE]
    /\ last = NoInvocation
    /\ Quiescent

NextChannel ==
    \/ Delete
    \/ Id
    \/ Forward

SpecChannel == InitChannel /\ [][NextChannel]_vars

\* impl Deserialize for Channel: the decoder is a function of the record
\* alone.
InitDecode ==
    /\ chan \in [tag : {"Guild"}, rec : IdRecords]
    /\ cache = [enabled |-> FALSE, bot |-> FALSE]
    /\ last = NoInvocation
    /\ Quiescent

NextDecode == Deserialize

SpecDecode == InitDecode /\ [][NextDecode]_vars

\* impl Deserialize for PermissionOverwrite: a function of the record alone.
NextOverwrite == DeserializeOverwrite

SpecOverwrite == InitDecode /\ [][NextOverwrite]_vars

\* The whole program: any operation on any channel in any order, by any
\* thread.  The other specifications are its restrictions to one impl block
\* or one group of threads each.
Next ==
    \/ NextGroup
    \/ NextChannel
    \/ NextDecode
    \/ NextOverwrite
    \/ GroupForward
    \/ WriterStep
    \/ \E t \in Clients : ReaderStep(t) \/ CallerStep(t)

Spec == Init /\ [][Next]_vars

----------------------------------------------------------------------------
\* Properties of the decoder (checked under SpecDecode)

Decoded == last.op = "deserialize"
KnownCodes == 0..4
IntType(v) == v.type.k = "int"
UnknownChannelType == Err(custom("Unknown channel type"))

\* The tag the documented mapping gives to a type code.
TagOfCode(n) ==
    CASE n \in {0, 2} -> "Guild"
      [] n = 1 -> "Private"
      [] n = 3 -> "Group"
      [] n = 4 -> "Category"

\* C1: a record whose "type" is an integer is decoded by that integer alone:
\* 0 and 2 give Guild, 1 Private, 3 Group, 4 Category whenever the selected
\* variant decoder succeeds, and every other integer gives the unknown-type
\* failure with no variant decoder attempted.
C1_TagFromTypeInteger ==
    (Decoded /\ IntType(last.input[1])) =>
        LET n == last.input[1].type.n
        IN  IF n \in KnownCodes
            THEN /\ last.decoders = <<TagOfCode(n)>>
                 /\ last.result.st \in {"Ok", "Err"}
                 /\ last.result.st = "Ok" <=> TagOfCode(n) \in last.input[1].fits
                 /\ last.result.st = "Ok" => last.result.val.msg = TagOfCode(n)
            ELSE /\ last.decoders = <<>>
                 /\ last.result = UnknownChannelType

\* C2: a record without a "type" field is answered with the missing-field
\* failure for "type", whatever its other fields are; no variant decoder runs
\* and nothing panics.
C2_MissingType ==
    (Decoded /\ last.input[1].type.k = "absent") =>
        /\ last.result = Err(missing_field("type"))
        /\ last.decoders = <<>>

C2_Witness ==
    /\ Decoded
    /\ last.input[1].type.k = "absent"
    /\ last.input[1].fits = Tags
    /\ last.result.st = "Err"

\* C3: every record given to the decoder ends in a Channel or in a failure
\* returned to the caller; none ends in a panic.
C3_NoPanic == Decoded => last.result.st \in {"Ok", "Err"}

----------------------------------------------------------------------------
\* Properties of the operations (C5-C7 checked under SpecGroup, C8-C10 under
\* SpecChannel)

\* The identifier stored in the record a Channel wraps.
StoredId(c) == IF c.tag = "Group" THEN c.rec.channel_id ELSE c.rec.id

Present(g, u) == u \in {g.recipients[i].id : i \in 1..Len(g.recipients)}

\* The invocation issued exactly the request (name, id, arg) and returned
\* the remote service's reply to it.
OneCall(name, id, arg) ==
    /\ Len(last.calls) = 1
    /\ last.calls[1].name = name
    /\ last.calls[1].channel_id = id
    /\ last.calls[1].args = <<arg>>
    /\ last.result = last.calls[1].reply

\* C5: add_recipient of a present user and remove_recipient of an absent user
\* return success with no remote call; in the opposite cases each issues
\* exactly one call (add-group-recipient, respectively remove-group-recipient,
\* for the group's channel id and the user) and returns its result.
C5_RecipientCalls ==
    /\ last.op = "add_recipient" =>
          IF Present(chan.rec, last.args[1])
          THEN last.calls = <<>> /\ last.result = Ok(Unit)
          ELSE OneCall("add_group_recipient", chan.rec.channel_id, last.args[1])
    /\ last.op = "remove_recipient" =>
          IF ~Present(chan.rec, last.args[1])
          THEN last.calls = <<>> /\ last.result = Ok(Unit)
          ELSE OneCall("remove_group_recipient", chan.rec.channel_id, last.args[1])

C5_Witness ==
    /\ last.op = "add_recipient"
    /\ Present(chan.rec, last.args[1])
    /\ Len(chan.rec.recipients) > 1
    /\ last.calls = <<>>

\* C6: with the cache enabled and the cached user a bot, ack returns
\* InvalidOperationAsBot with no remote call; otherwise (not a bot, or no
\* cache) it issues exactly one ack call for the group's channel id and
\* returns its result.
C6_AckBotCheck ==
    last.op = "ack" =>
        IF cache.enabled /\ cache.bot
        THEN last.calls = <<>> /\ last.result = Err(InvalidOperationAsBot)
        ELSE OneCall("ack", chan.rec.channel_id, last.args[1])

C6_Witness ==
    /\ last.op = "ack"
    /\ cache.enabled
    /\ cache.bot
    /\ last.result.st = "Err"

RECURSIVE Offset(_, _)
\* Where the i-th recipient's name starts in the synthesized name.
Offset(rs, i) == IF i = 1 THEN 0 ELSE Offset(rs, i - 1) + Len(rs[i - 1].name) + 2

\* C7: name() is the explicit name when one is set; else "Empty Group" when
\* there is no recipient; else the recipients' names in iteration order, each
\* once, with ", " between two neighbours and nowhere else.
C7_GroupName ==
    last.op = "name" =>
        LET g == chan.rec
            rs == g.recipients
            n == Len(rs)
            r == last.result.val
        IN  IF g.name # None THEN r = g.name[1]
            ELSE IF n = 0 THEN r = EmptyGroup
            ELSE /\ Len(r) = Offset(rs, n) + Len(rs[n].name)
                 /\ \A i \in 1..n :
                       SubSeq(r, Offset(rs, i) + 1, Offset(rs, i) + Len(rs[i].name)) = rs[i].name
                 /\ \A i \in 1..(n - 1) :
                       SubSeq(r, Offset(rs, i + 1) - 1, Offset(rs, i + 1)) = <<",", " ">>

C7_Witness ==
    /\ last.op = "name"
    /\ chan.rec.name = None
    /\ Len(chan.rec.recipients) = 3
    /\ Len(last.result.val) > 4

\* The request Channel::delete is to issue for a tag.
DeleteRequest(tag) ==
    CASE tag = "Group" -> "leave_group"
      [] tag = "Guild" -> "GuildChannel::delete"
      [] tag = "Private" -> "PrivateChannel::delete"
      [] tag = "Category" -> "ChannelCategory::delete"

\* C8: Channel::delete issues exactly one request, the one of its tag (leave
\* for a Group, the variant's delete otherwise), returns success without
\* payload if it succeeds and the request's failure otherwise.
C8_DeleteByTag ==
    last.op = "delete" =>
        /\ Len(last.calls) = 1
        /\ last.calls[1].name = DeleteRequest(chan.tag)
        /\ last.calls[1].channel_id = StoredId(chan)
        /\ last.result = IF last.calls[1].reply.st = "Ok"
                         THEN Ok(Unit)
                         ELSE last.calls[1].reply

C8_Witness ==
    /\ last.op = "delete"
    /\ chan.tag = "Group"
    /\ last.result.st = "Err"

\* The identifier-scoped operations the documentation lists for Channel.
DocumentedOps ==
    {"send_message", "edit_message", "delete_message", "messages", "search",
     "pin", "unpin", "create_reaction", "delete_reaction", "reaction_users",
     "delete_permission"}

\* Channels of every tag that hold the identifier id (the groups among them
\* with at most one recipient).
FewRecipients == {<<>>} \cup {<<User(u)>> : u \in UserIds}
Holding(id) ==
    [tag : {"Group"},
     rec : [channel_id : {id}, icon : IconVals, name : GroupNames, owner_id : OwnerIds,
            recipients : FewRecipients]]
        \cup [tag : Tags \ {"Group"}, rec : [id : {id}]]

\* C9 as amended: each of the eleven forwarding methods Channel has
\* (create_reaction, delete_message, delete_reaction, edit_message, message,
\* messages, reaction_users, say, send_files, send_message, unpin) issues, for
\* each tag, the identifier's request of the same name for the stored
\* identifier with the same argument and returns its result, and any Channel
\* of any tag holding the same identifier does the same.
C9_ForwardByIdentifier ==
    last.op \in ChannelOps =>
        /\ OneCall(last.op, StoredId(chan), last.args[1])
        /\ \A c \in Holding(StoredId(chan)) :
              Channel_forward(c, last.op, last.args[1], last.calls[1].reply)
                  = Returned(last.calls, last.result)

\* C9 as stated: every listed identifier-scoped operation, search, pin and
\* permission-overwrite delete included, is an operation of Channel that
\* forwards to the identifier.
C9_AllDocumentedForwarded ==
    /\ \A op \in DocumentedOps : op \in ChannelMethods
    /\ C9_ForwardByIdentifier

C9_Witness ==
    /\ last.op = "unpin"
    /\ chan.tag = "Category"
    /\ last.args = <<MaxArg>>
    /\ OneCall("unpin", chan.rec.id, MaxArg)

\* C10: id() returns the identifier stored in the wrapped record (channel_id
\* of a Group, id of the others), for every Channel, without a remote call
\* and without changing the channel or the cache.
C10_IdProjection ==
    [][last'.op = "id" =>
          /\ last'.result = Value("ChannelId", StoredId(chan))
          /\ last'.calls = <<>>
          /\ chan' = chan
          /\ cache' = cache]_vars

C10_Witness ==
    /\ last.op = "id"
    /\ chan.tag = "Group"
    /\ last.result.val = chan.rec.channel_id
    /\ chan.rec.owner_id # chan.rec.channel_id

----------------------------------------------------------------------------
\* Properties of the overwrite decoder (checked under SpecOverwrite)

DecodedOverwrite == last.op = "deserialize_overwrite"

\* C12: an overwrite record {allow, deny, id, type} with a string type
\* decodes to kind Member(UserId(id)) exactly when the type is "member", to
\* Role(RoleId(id)) exactly when it is "role", with allow and deny copied
\* unchanged, and to the unknown-type failure for every other string,
\* other-case spellings and the empty string included.
C12_OverwriteKind ==
    (DecodedOverwrite /\ last.input[1].type.k = "string") =>
        LET v == last.input[1]
            r == last.result
        IN  /\ (r.st = "Ok" /\ r.val.target.kind = "Member") <=> v.type.s = "member"
            /\ (r.st = "Ok" /\ r.val.target.kind = "Role") <=> v.type.s = "role"
            /\ r.st = "Ok" =>
                  /\ r.val.target.id = v.id
                  /\ r.val.allow = v.allow
                  /\ r.val.deny = v.deny
            /\ v.type.s \notin {"member", "role"} =>
                  r = Err(custom("Unknown PermissionOverwriteType"))

C12_Witness ==
    /\ DecodedOverwrite
    /\ last.input[1].type = [k |-> "string", s |-> "Member"]
    /\ last.input[1].allow # last.input[1].deny
    /\ last.result.st = "Err"

----------------------------------------------------------------------------
\* Frame of the Group methods (checked under SpecGroup)

GroupCalls == {"add_recipient", "remove_recipient", "ack", "leave"}

\* A successful add_recipient(u) that issued its request.
AddedRemotely(l) ==
    /\ l.op = "add_recipient"
    /\ Len(l.calls) = 1
    /\ l.result = Ok(Unit)

\* C14: every add_recipient, remove_recipient, ack and leave call on a Group,
\* successful or failed, leaves the Group's recipients, name, icon, owner_id
\* and channel_id as they were; a successful add_recipient(u) does not make u
\* present locally, so an add_recipient(u) that follows it issues a request
\* again.
C14_GroupFrame ==
    [][/\ last'.op \in GroupCalls => chan' = chan
       /\ (AddedRemotely(last) /\ last'.op = "add_recipient" /\ last'.args = last.args) =>
              /\ ~Present(chan'.rec, last.args[1])
              /\ Len(last'.calls) = 1
              /\ last'.calls[1].name = "add_group_recipient"]_vars

C14_Witness ==
    /\ AddedRemotely(last)
    /\ ~Present(chan.rec, last.args[1])
    /\ Len(chan.rec.recipients) = 2

----------------------------------------------------------------------------
\* Remote calls per invocation (checked under SpecCalls)

\* Every method of Group and of Channel, on a channel of any tag (the groups
\* with at most one recipient).
InitCalls ==
    /\ chan \in UNION {Holding(id) : id \in ChannelIds}
    /\ cache \in [enabled : BOOLEAN, bot : BOOLEAN]
    /\ last = NoInvocation
    /\ Quiescent

NextCalls ==
    \/ NextGroup
    \/ GroupForward
    \/ NextChannel

SpecCalls == InitCalls /\ [][NextCalls]_vars

\* C13: an invocation of a Group or Channel method issues at most one remote
\* call; when that call fails the method returns that same failure, with no
\* second attempt and no success or default value in its place.
C13_OneCallFailureReturned ==
    /\ Len(last.calls) <= 1
    /\ (Len(last.calls) = 1 /\ last.calls[1].reply.st = "Err") =>
          last.result = last.calls[1].reply

C13_Witness ==
    /\ last.op = "delete"
    /\ chan.tag = "Group"
    /\ Len(last.calls) = 1
    /\ last.result = Err([kind |-> "remote", msg |-> "Forbidden"])

----------------------------------------------------------------------------
\* Readers and one writer on a shared Group (checked under SpecReadersFair)

\* A shared Group with at most one recipient, no thread begun.
InitReaders ==
    /\ chan \in [tag : {"Group"},
                 rec : [channel_id : ChannelIds, icon : IconVals, name : GroupNames,
                        owner_id : OwnerIds, recipients : FewRecipients]]
    /\ cache = [enabled |-> TRUE, bot |-> FALSE]
    /\ last = NoInvocation
    /\ Quiescent

NextReaders ==
    \/ WriterStep
    \/ \E t \in Clients : ReaderStep(t)

SpecReaders == InitReaders /\ [][NextReaders]_vars

\* Every thread that can take a step eventually takes one: the threads are
\* scheduled by the operating system, and a thread blocked on the lock is
\* woken when the lock is free.
SpecReadersFair ==
    /\ SpecReaders
    /\ \A t \in Clients : WF_vars(ReaderStep(t))
    /\ WF_vars(WriterStep)

Finished(t) == procs[t].pc = "done"
AllDone == writer = "done" /\ \A t \in Clients : Finished(t)

\* What a finished reader observed is the projection of the record before the
\* write or of the record after it.
ObservedWhole(t) ==
    CASE procs[t].op = "fmt" ->
            \/ procs[t].text = Group_name(pre.rec)
            \/ writer = "done" /\ procs[t].text = Group_name(chan.rec)
      [] procs[t].op = "id" ->
            \/ procs[t].id = Channel_id(pre)
            \/ writer = "done" /\ procs[t].id = Channel_id(chan)
      [] procs[t].op = "is_nsfw" -> procs[t].nsfw = FALSE
      [] OTHER -> FALSE

\* C11: with the threads of Clients each making one read-only projection
\* (Channel::id, Channel::is_nsfw, Display through Group::name) of one shared
\* Group while one thread writes it, no reachable state short of completion is
\* without a step, every thread eventually completes, and every reader
\* observes the whole record before the write or the whole record after it.
C11_ReadersAndWriter ==
    /\ [](\A t \in Clients : Finished(t) => ObservedWhole(t))
    /\ [](AllDone \/ ENABLED NextReaders)
    /\ <>AllDone

C11_Witness ==
    /\ AllDone
    /\ Group_name(pre.rec) # Group_name(chan.rec)
    /\ \E t, u \in Clients :
          /\ procs[t].op = "fmt" /\ procs[t].text = Group_name(pre.rec)
          /\ procs[u].op = "fmt" /\ procs[u].text = Group_name(chan.rec)

----------------------------------------------------------------------------
\* Remote calls and the lock (checked under SpecLock)

\* The thread that calls delete() or a forwarding method; the other threads
\* call id().
Caller == CHOOSE t \in Clients : \A u \in Clients : t <= u

\* A shared channel of any tag, no thread begun.
InitLock ==
    /\ chan \in UNION {Holding(id) : id \in ChannelIds}
    /\ cache = [enabled |-> TRUE, bot |-> FALSE]
    /\ last = NoInvocation
    /\ Quiescent

NextLock ==
    \/ WriterStep
    \/ CallerStep(Caller)
    \/ \E t \in Clients \ {Caller} : IdAcquire(t) \/ IdProject(t)

SpecLock == InitLock /\ [][NextLock]_vars

Forwarding(t, pc) == procs[t].op \in ChannelOps /\ procs[t].pc = pc

\* C15: in each of the eleven forwarding methods of Channel the read lock of
\* the wrapped record is held for the identifier projection only and is
\* released before the remote call is issued: while the call is in flight
\* the calling thread holds no guard, so a writer is blocked by that thread
\* at no time during the call.
C15_ForwardReleasesBeforeCall ==
    \A t \in Clients :
        /\ Forwarding(t, "with") => t \in lock.readers
        /\ Forwarding(t, "call") =>
              /\ t \notin lock.readers
              /\ (lock.readers \ {t} = {} /\ ~lock.writer) => WriteAcquirable(lock)
        /\ Forwarding(t, "done") => t \notin lock.readers

C15_Witness ==
    /\ Forwarding(Caller, "call")
    /\ procs[Caller].op = "send_message"
    /\ lock.writer
    /\ writer = "recipients"

\* C16: Channel::delete takes the read lock of the wrapped record before it
\* issues its request and holds it until the request is answered: while the
\* request is in flight the write lock cannot be acquired and the read lock
\* can; when delete has returned, with success or with the failure, the
\* thread holds no guard.
C16_DeleteHoldsReadLock ==
    \A t \in Clients :
        /\ At(t, "delete", "call") =>
              /\ t \in lock.readers
              /\ ~WriteAcquirable(lock)
              /\ ReadAcquirable(lock)
        /\ At(t, "delete", "done") => t \notin lock.readers

C16_Witness ==
    /\ At(Caller, "delete", "call")
    /\ writer = "idle"
    /\ \E u \in Clients \ {Caller} : At(u, "id", "with") /\ u \in lock.readers

====
